---- MODULE Spec2Model ----
(***************************************************************************)
(* ID3 decision tree induction of src/AP_01/ID3.py: class Dataset          *)
(* (entropy, information_gain, _id3, build_tree, derive_ruleset,           *)
(* eval_condition, print_ruleset, accuracy, paths) and class Node.         *)
(*                                                                         *)
(* A Dataset object is the state.  Every public method is one action that  *)
(* models the whole call, nested calls included.  Categorical values are   *)
(* numbered 1, 2, ... in the lexicographic order of their strings, so that *)
(* sorted() is the numeric order.  A float entropy is kept exactly, as the *)
(* ratio whose binary logarithm it is (see entropy).                       *)
(***************************************************************************)
EXTENDS Integers, Sequences, FiniteSets, TLC

\* Largest number of data lines of the input file.
MaxRecs == 3

\* The header line of the input file: predictor columns, then the target.
Predictors == <<"A", "B", "C">>
Target == "T"
\* The values a predictor column and the target column can hold.
AttrValues == {1, 2}
TargetValues == {1, 2}

VARIABLES
    data,       \* self.data: list of tuples (dictionaries column -> value)
    headers,    \* self.headers: list of predictor names
    target,     \* self.target
    tree,       \* self.tree: None or the root Node
    ruleset,    \* self.ruleset: None or the list of rules
    hashOrder,  \* iteration order of a set of str in this process (hash seed)
    calls,      \* history: the _id3 calls that built self.tree, in call order
    derivedFrom,\* history: the _id3 calls that built the tree self.ruleset was derived from
    outcome     \* history: the latest method call and what it returned or raised

vars == <<data, headers, target, tree, ruleset, hashOrder, calls, derivedFrom, outcome>>

----------------------------------------------------------------------------
(* Python values *)

None == <<>>
Some(x) == <<x>>

Range(s) == {s[i] : i \in 1..Len(s)}

\* list.count
Count(s, x) == Cardinality({i \in 1..Len(s) : s[i] = x})

\* list.remove: drops the first occurrence
Remove(s, x) ==
    LET i == CHOOSE j \in 1..Len(s) : s[j] = x /\ \A k \in 1..(j - 1) : s[k] # x
    IN  SubSeq(s, 1, i - 1) \o SubSeq(s, i + 1, Len(s))

\* sorted(set)
RECURSIVE sorted(_)
sorted(S) ==
    IF S = {} THEN <<>>
    ELSE LET m == CHOOSE x \in S : \A y \in S : x <= y
         IN  <<m>> \o sorted(S \ {m})

\* The keys of {val: ... for val in values}: distinct values, by first occurrence.
Keys(values) ==
    LET idx == SelectSeq([i \in 1..Len(values) |-> i],
                         LAMBDA i : \A k \in 1..(i - 1) : values[k] # values[i])
    IN  [j \in 1..Len(idx) |-> values[idx[j]]]

\* Iterating a set of target strings visits them in the order their hashes give.
SetIter(S) == SelectSeq(hashOrder, LAMBDA v : v \in S)

RECURSIVE Orders(_)
Orders(S) ==
    IF S = {} THEN {<<>>}
    ELSE UNION {{<<x>> \o p : p \in Orders(S \ {x})} : x \in S}

RECURSIVE Pow(_, _)
Pow(b, e) == IF e = 0 THEN 1 ELSE b * Pow(b, e - 1)

RECURSIVE Prod(_)
Prod(s) == IF s = <<>> THEN 1 ELSE Head(s) * Prod(Tail(s))

RECURSIVE GCD(_, _)
GCD(a, b) == IF b = 0 THEN a ELSE GCD(b, a % b)

----------------------------------------------------------------------------
(* Entropies.  The code's float h is kept as [num, den, n], standing for   *)
(* h = log2(num / den) / n (and 0 when n = 0), with num/den in lowest      *)
(* terms: -sum p*log2(p) over counts c of n values is                      *)
(* log2(n^n / prod c^c) / n.                                               *)

Ratio(num, den, n) ==
    LET g == GCD(num, den) IN [num |-> num \div g, den |-> den \div g, n |-> n]

\* h1 - h2 of two entropies over the same number of tuples
Minus(h1, h2) ==
    LET g == GCD(h1.num, h2.num)
        k == GCD(h1.den, h2.den)
    IN  Ratio((h1.num \div g) * (h2.den \div k), (h1.den \div k) * (h2.num \div g), h1.n)

\* h1 > h2 of two floats over the same number of tuples
Greater(h1, h2) ==
    LET g == GCD(h1.num, h2.num)
        k == GCD(h1.den, h2.den)
    IN  (h1.num \div g) * (h2.den \div k) > (h2.num \div g) * (h1.den \div k)

\* entropy(self, r, s=None, dataset=None); s = "" and dataset = <<>> are the
\* arguments the tests "not s" and "not dataset" take for absent.
\* [tup[c] for tup in dataset]
Column(dataset, c) == [i \in 1..Len(dataset) |-> dataset[i][c]]

\* [tup for tup in dataset if tup[c] == val]
Where(dataset, c, val) == SelectSeq(dataset, LAMBDA tup : tup[c] = val)

\* lines 44-50 with count's keys: the term -p*log2(p), p = c/n, of a value
\* counted c times among n is log2(n^c / c^c) / n
EntropyOfValues(values, keys) ==
    Ratio(Prod([j \in 1..Len(keys) |-> Pow(Len(values), Count(values, keys[j]))]),
          Prod([j \in 1..Len(keys) |->
                    Pow(Count(values, keys[j]), Count(values, keys[j]))]),
          Len(values))

\* lines 54-59 with the entropies hs of the subsets: the term p*entropy(subset),
\* p = |subset|/n, of a subset of entropy h is log2(h.num / h.den) / n
WeightedSum(hs, n) ==
    Ratio(Prod([j \in 1..Len(hs) |-> hs[j].num]),
          Prod([j \in 1..Len(hs) |-> hs[j].den]), n)

RECURSIVE entropy(_, _, _)
\* lines 43-59, dataset chosen; s = "" is the s the test "not s" takes for absent
EntropyOver(r, s, dataset) ==
    IF s = "" THEN
        EntropyOfValues(Column(dataset, r), Keys(Column(dataset, r)))
    ELSE
        WeightedSum([j \in 1..Len(Keys(Column(dataset, s))) |->
                        entropy(r, "", Where(dataset, s, Keys(Column(dataset, s))[j]))],
                    Len(dataset))

\* entropy(self, r, s=None, dataset=None); dataset = <<>> is the dataset the
\* test "not dataset" takes for absent
entropy(r, s, dataset) == EntropyOver(r, s, IF dataset = <<>> THEN data ELSE dataset)

\* information_gain(self, r, s): always over self.data
information_gain(r, s) == Minus(entropy(r, "", <<>>), entropy(r, s, <<>>))

\* max(attrs, key=lambda x: info_gain[x]): the first element with the largest key
MaxGain(attrs, info_gain) ==
    LET i == CHOOSE j \in 1..Len(attrs) :
                /\ \A k \in 1..Len(attrs) : ~Greater(info_gain[attrs[k]], info_gain[attrs[j]])
                /\ \A k \in 1..(j - 1) : Greater(info_gain[attrs[j]], info_gain[attrs[k]])
    IN  attrs[i]

\* MaxCount with min() written for max(): the first value with the smallest count
MinCount(t_values) ==
    LET it == SetIter(Range(t_values))
        i == CHOOSE j \in 1..Len(it) :
                /\ \A k \in 1..Len(it) : Count(t_values, it[k]) >= Count(t_values, it[j])
                /\ \A k \in 1..(j - 1) : Count(t_values, it[k]) > Count(t_values, it[j])
    IN  it[i]

\* max(set(t_values), key=t_values.count): the first value, in the set's
\* iteration order, with the largest count
MaxCount(t_values) ==
    LET it == SetIter(Range(t_values))
        i == CHOOSE j \in 1..Len(it) :
                /\ \A k \in 1..Len(it) : Count(t_values, it[k]) <= Count(t_values, it[j])
                /\ \A k \in 1..(j - 1) : Count(t_values, it[k]) < Count(t_values, it[j])
    IN  it[i]

----------------------------------------------------------------------------
(* class Node.  TLC compares values of one kind only, so the value of a    *)
(* node is kept under the name of what it is: [attr |-> name] in an 'attr' *)
(* node, [val |-> v] in a 'val' node, and the dictionary                   *)
(* [attr |-> target, val |-> v] in a 'label' node.                         *)

Node(value, type) == [value |-> value, type |-> type, children |-> <<>>]

is_leaf(node) == node.type = "label"

add(node, child) == [node EXCEPT !.children = Append(@, child)]

----------------------------------------------------------------------------
(* Dataset._id3.  attrs is a Python list passed by reference: the list a   *)
(* call holds after a recursive call returns is the list that call left,   *)
(* so _id3 returns it beside the node.  calls lists the calls made, each   *)
(* with the attrs it received, the attrs its caller received (caller), the *)
(* attributes its ancestors tested (path) and what it did.                 *)

Raised(attrs, exc) == [node |-> None, attrs |-> attrs, exc |-> exc, calls |-> <<>>]

\* BranchAttrs with attrs.pop() written for attrs.remove(attr)
BranchAttrsPop(attrs, attr, subset) ==
    IF subset = <<>> THEN attrs
    ELSE IF attrs # <<>> THEN SubSeq(attrs, 1, Len(attrs) - 1)
    ELSE attrs

\* BranchAttrs removing attr only ahead of a subset that will be split further
BranchAttrsIfMixed(attrs, attr, subset) ==
    IF subset = <<>> THEN attrs
    ELSE IF attrs # <<>> /\ attr \in Range(attrs)
            /\ Cardinality({subset[i][target] : i \in 1..Len(subset)}) > 1
         THEN Remove(attrs, attr)
    ELSE attrs

\* lines 85-91: the attrs list after the branch of one value prepared its recursion
BranchAttrs(attrs, attr, subset) ==
    IF subset = <<>> THEN attrs
    ELSE IF attrs # <<>> /\ attr \in Range(attrs) THEN Remove(attrs, attr)
    ELSE attrs

\* what a call records of itself in calls
Call(ctx, attrs, dataset, kind, attr, val) ==
    [path |-> ctx.path, caller |-> ctx.caller, received |-> attrs, dataset |-> dataset,
     kind |-> kind, attr |-> attr, val |-> val]

\* lines 73 and 76: return Node({'attr': target, 'val': val}, 'label')
Label(tgt, attrs, dataset, ctx, kind, val) ==
    [node |-> Node([attr |-> tgt, val |-> val], "label"), attrs |-> attrs, exc |-> "",
     calls |-> <<Call(ctx, attrs, dataset, kind, "", val)>>]

RECURSIVE id3(_, _, _, _)
RECURSIVE branches(_, _, _, _, _, _)

\* lines 80-94, attr chosen
Split(tgt, attrs, dataset, ctx, attr) ==
    branches(tgt, attr, sorted(Range(Column(dataset, attr))),
             [node |-> Node([attr |-> attr], "attr"), attrs |-> attrs, exc |-> "",
              calls |-> <<Call(ctx, attrs, dataset, "split", attr, 0)>>],
             dataset, [path |-> Append(ctx.path, attr), caller |-> attrs])

\* lines 71-79, t_values computed
Decide(tgt, attrs, dataset, ctx, t_values) ==
    IF Cardinality(Range(t_values)) = 1 THEN
        Label(tgt, attrs, dataset, ctx, "pure", SetIter(Range(t_values))[1])
    ELSE IF attrs = <<>> THEN
        IF t_values = <<>> THEN Raised(attrs, "ValueError")   \* max() of an empty set
        ELSE Label(tgt, attrs, dataset, ctx, "majority", MaxCount(t_values))
    ELSE
        Split(tgt, attrs, dataset, ctx,
              MaxGain(attrs, [a \in Range(attrs) |-> information_gain(tgt, a)]))

\* _id3(self, target, attrs, dataset)
id3(tgt, attrs, dataset, ctx) == Decide(tgt, attrs, dataset, ctx, Column(dataset, tgt))

\* lines 92 on: the child is attached and the loop goes on, unless the call raised
Attach(tgt, attr, a_values, st, dataset, ctx, r) ==
    IF r.exc # "" THEN [st EXCEPT !.attrs = r.attrs, !.exc = r.exc]
    ELSE branches(tgt, attr, Tail(a_values),
                  [node |-> add(st.node, add(Node([val |-> Head(a_values)], "val"), r.node)),
                   attrs |-> r.attrs, exc |-> "", calls |-> st.calls \o r.calls],
                  dataset, ctx)

\* lines 83-92: one round of the loop, subset computed
Branch(tgt, attr, a_values, st, dataset, ctx, subset) ==
    IF subset = <<>> THEN [st EXCEPT !.exc = "ValueError"]   \* max() of an empty set
    ELSE Attach(tgt, attr, a_values, st, dataset, ctx,
                id3(tgt, BranchAttrs(st.attrs, attr, subset), subset, ctx))

\* the loop "for val in a_values" of lines 82-92, from the state st it reached
branches(tgt, attr, a_values, st, dataset, ctx) ==
    IF a_values = <<>> \/ st.exc # "" THEN st
    ELSE Branch(tgt, attr, a_values, st, dataset, ctx,
                Where(dataset, attr, Head(a_values)))

----------------------------------------------------------------------------
(* The methods, on self = the fields a method can change; each returns     *)
(* the object it leaves, the exception it raised ("" for none) and the     *)
(* value it returned, under the name of what it is.                        *)

Self ==
    [headers |-> headers, tree |-> tree, ruleset |-> ruleset,
     calls |-> calls, derivedFrom |-> derivedFrom]

Return(self, exc, ret) == [self |-> self, exc |-> exc, ret |-> ret]

NoValue == [none |-> TRUE]

\* lines 97-98, _id3 returned r: attrs was self.headers itself, not a copy
Built(self, r) ==
    IF r.exc # "" THEN Return([self EXCEPT !.headers = r.attrs], r.exc, NoValue)
    ELSE Return([self EXCEPT !.headers = r.attrs, !.tree = Some(r.node), !.calls = r.calls],
                "", [tree |-> r.node])

build_tree(self) ==
    Built(self, id3(target, self.headers, data, [path |-> <<>>, caller |-> <<>>]))

RECURSIVE paths(_, _)
RECURSIVE pathsOf(_, _)
\* paths(self, node, path): the generator's items, in order
paths(node, path) ==
    (IF is_leaf(node) THEN <<Append(path, node.value)>> ELSE <<>>)
        \o pathsOf(node.children, Append(path, node.value))
\* the loop "for child in node.children"
pathsOf(children, path) ==
    IF children = <<>> THEN <<>>
    ELSE paths(Head(children), path) \o pathsOf(Tail(children), path)

\* zip(*(iter(r[:-1]),) * 2): consecutive pairs (attribute, value)
attr_pairs(r) == [i \in 1..((Len(r) - 1) \div 2) |-> <<r[2 * i - 1].attr, r[2 * i].val>>]

\* lines 106-109: (name, attr_pairs, {attr: val}); the string name,
\* "IF (a == v) AND ... THEN target = val", is kept as what it spells
Rule(pairs, result) ==
    << [if |-> pairs, then |-> <<result.attr, result.val>>],
       pairs,
       (result.attr :> result.val) >>

\* lines 103-112
Rules(ruleset_list) ==
    [i \in 1..Len(ruleset_list) |->
        Rule(attr_pairs(ruleset_list[i]), ruleset_list[i][Len(ruleset_list[i])])]

\* lines 103-112, after "if self.tree is None: self.build_tree()" gave b
Derived(b) ==
    IF b.exc # "" THEN b
    ELSE Return([b.self EXCEPT !.ruleset = Some(Rules(paths(b.self.tree[1], <<>>))),
                               !.derivedFrom = b.self.calls],
                "", [rules |-> Rules(paths(b.self.tree[1], <<>>))])

derive_ruleset(self) ==
    Derived(IF self.tree = None THEN build_tree(self) ELSE Return(self, "", NoValue))

\* eval_condition with any() written for all()
eval_condition_any(tup, attr_val_pairs) ==
    \E i \in 1..Len(attr_val_pairs) : tup[attr_val_pairs[i][1]] = attr_val_pairs[i][2]

\* all(tup[attr] == val for attr, val in attr_val_pairs)
eval_condition(tup, attr_val_pairs) ==
    \A i \in 1..Len(attr_val_pairs) : tup[attr_val_pairs[i][1]] = attr_val_pairs[i][2]

\* lines 124-126, after "if self.ruleset is None: self.derive_ruleset()" gave d;
\* the value is the list of the lines printed
Printed(d) ==
    IF d.exc # "" THEN d
    ELSE Return(d.self, "",
                [printed |-> [i \in 1..Len(d.self.ruleset[1]) |-> d.self.ruleset[1][i][1]]])

print_ruleset(self) ==
    Printed(IF self.ruleset = None THEN derive_ruleset(self) ELSE Return(self, "", NoValue))

\* line 133
data_subset(rule) == SelectSeq(data, LAMBDA t : eval_condition(t, rule[2]))

\* correct_preds without the comparison with the rule's conclusion
correct_preds_all(subset, rule) == subset

\* line 134
correct_preds(subset, rule) ==
    SelectSeq(subset, LAMBDA t : t[target] = rule[3][target])

RECURSIVE Sum(_)
Sum(s) == IF s = <<>> THEN 0 ELSE Head(s) + Sum(Tail(s))

\* lines 131-135
total_correct(rs) ==
    Sum([i \in 1..Len(rs) |-> Len(correct_preds(data_subset(rs[i]), rs[i]))])

\* lines 131-136, after "if self.ruleset is None: self.derive_ruleset()" gave d;
\* the float total_correct / len(self.data) is <<total_correct, len(self.data)>>
Scored(d) ==
    IF d.exc # "" THEN d
    ELSE IF Len(data) = 0 THEN Return(d.self, "ZeroDivisionError", NoValue)
    ELSE Return(d.self, "", [accuracy |-> <<total_correct(d.self.ruleset[1]), Len(data)>>])

accuracy(self) ==
    Scored(IF self.ruleset = None THEN derive_ruleset(self) ELSE Return(self, "", NoValue))

----------------------------------------------------------------------------
(* The state machine *)

\* a data line under the given header
Tuples(hs) ==
    {t \in [Range(hs) \cup {Target} -> AttrValues \cup TargetValues] :
        /\ t[Target] \in TargetValues
        /\ \A a \in Range(hs) : t[a] \in AttrValues}

RECURSIVE Lists(_, _)
Lists(S, n) ==
    IF n = 0 THEN {<<>>}
    ELSE LET shorter == Lists(S, n - 1) IN
         shorter \cup {Append(l, x) : l \in {m \in shorter : Len(m) = n - 1}, x \in S}

\* the data line t comes no later than u when the lines are sorted column by column
Leq(hs, t, u) ==
    LET cols == Append(hs, Target) IN
    \/ t = u
    \/ \E i \in 1..Len(cols) :
          /\ \A k \in 1..(i - 1) : t[cols[k]] = u[cols[k]]
          /\ t[cols[i]] < u[cols[i]]

\* The files of at most MaxRecs data lines under the header hs, lines sorted.
\* No method reads the position of a tuple in self.data: a file with the same
\* lines in another order gives the same trees, rules and accuracy, with the
\* tuples of each subset in that other order.
Files(hs) ==
    {l \in Lists(Tuples(hs), MaxRecs) : \A i \in 1..(Len(l) - 1) : Leq(hs, l[i], l[i + 1])}

\* Dataset(data_list): populate_data on a well-formed file
Init ==
    /\ \E k \in 0..Len(Predictors) :
         /\ headers = SubSeq(Predictors, 1, k)
         /\ data \in Files(SubSeq(Predictors, 1, k))
    /\ target = Target
    /\ tree = None
    /\ ruleset = None
    /\ hashOrder \in Orders(TargetValues)
    /\ calls = <<>>
    /\ derivedFrom = <<>>
    /\ outcome = [op |-> "__init__", exc |-> "", ret |-> NoValue]

Commit(op, r) ==
    /\ headers' = r.self.headers
    /\ tree' = r.self.tree
    /\ ruleset' = r.self.ruleset
    /\ calls' = r.self.calls
    /\ derivedFrom' = r.self.derivedFrom
    /\ outcome' = [op |-> op, exc |-> r.exc, ret |-> r.ret]
    /\ UNCHANGED <<data, target, hashOrder>>

BuildTree == Commit("build_tree", build_tree(Self))

DeriveRuleset == Commit("derive_ruleset", derive_ruleset(Self))

PrintRuleset == Commit("print_ruleset", print_ruleset(Self))

Accuracy == Commit("accuracy", accuracy(Self))

Next == BuildTree \/ DeriveRuleset \/ PrintRuleset \/ Accuracy

Spec == Init /\ [][Next]_vars

----------------------------------------------------------------------------
(* What the properties speak of *)

\* the root-to-leaf paths of self.tree
TreePaths == IF tree = None THEN <<>> ELSE paths(tree[1], <<>>)

\* the attributes tested along a root-to-leaf path, root first
TestedOn(path) == [i \in 1..((Len(path) - 1) \div 2) |-> path[2 * i - 1].attr]

NoRepeat(s) == \A i, j \in 1..Len(s) : s[i] = s[j] => i = j

\* the rules of the tree self.tree
RulesOfTree == Rules(TreePaths)

\* the rules whose conjuncts the tuple satisfies
Matching(tup, rs) == {j \in 1..Len(rs) : eval_condition(tup, rs[j][2])}

\* the tuples whose target is the conclusion of a rule they match
Explained(rs) ==
    {i \in 1..Len(data) : \E j \in Matching(data[i], rs) : data[i][target] = rs[j][3][target]}

\* a leaf was labelled by majority vote in the calls cs
Fallback(cs) == \E i \in 1..Len(cs) : cs[i].kind = "majority"

\* information gain of attribute a over the tuples ds
SubsetGain(a, ds) == Minus(entropy(target, "", ds), entropy(target, a, ds))

\* the most frequent value of a list, the first to occur among the tied ones
FirstMostFrequent(values) ==
    LET i == CHOOSE j \in 1..Len(values) :
                /\ \A k \in 1..Len(values) : Count(values, values[k]) <= Count(values, values[j])
                /\ \A k \in 1..(j - 1) : Count(values, values[k]) < Count(values, values[j])
    IN  values[i]

Returned(op) == outcome.op = op /\ outcome.exc = ""

----------------------------------------------------------------------------
(* Properties *)

\* C1: build_tree called twice in a row on the same Dataset returns
\* structurally identical trees.
C1_BuildTwiceSameTree ==
    [][(Returned("build_tree") /\ Returned("build_tree")') => tree' = tree]_vars

\* C2: accuracy() on the rules of a tree built from a non-empty table returns
\* exactly 1.0 when no leaf of that tree was labelled by majority vote;
\* otherwise it returns less than 1.0, namely (tuples whose target is the
\* conclusion of the rule they match) / (tuples).
C2_AccuracyOfOwnRules ==
    (Returned("accuracy") /\ Len(data) > 0) =>
        /\ outcome.ret.accuracy[2] = Len(data)
        /\ ~Fallback(derivedFrom) => outcome.ret.accuracy[1] = outcome.ret.accuracy[2]
        /\ Fallback(derivedFrom) =>
            /\ outcome.ret.accuracy[1] < outcome.ret.accuracy[2]
            /\ outcome.ret.accuracy[1] = Cardinality(Explained(ruleset[1]))

C2_Witness ==
    /\ Returned("accuracy")
    /\ Fallback(derivedFrom)
    /\ \E i \in 1..Len(derivedFrom) : derivedFrom[i].kind = "split"
    /\ outcome.ret.accuracy[1] > 0
    /\ outcome.ret.accuracy[1] < outcome.ret.accuracy[2]

\* C3: every tuple of the table satisfies the conjuncts of exactly one rule
\* of the ruleset derived from a tree built on the table.
C3_RulesPartitionTable ==
    ruleset # None =>
        \A i \in 1..Len(data) : Cardinality(Matching(data[i], ruleset[1])) = 1

C3_Witness ==
    /\ ruleset # None
    /\ Len(ruleset[1]) >= 3
    /\ Len(data) >= 3
    /\ \E j \in 1..Len(ruleset[1]) : Len(ruleset[1][j][2]) >= 2

\* C4: no attribute is tested twice on a root-to-leaf path of a built tree,
\* and no _id3 call receives an attribute one of its ancestors tested.
C4_NoAttributeTwiceOnPath ==
    /\ \A i \in 1..Len(TreePaths) : NoRepeat(TestedOn(TreePaths[i]))
    /\ \A i \in 1..Len(calls) : Range(calls[i].path) \cap Range(calls[i].received) = {}

C4_Witness ==
    /\ \E i \in 1..Len(TreePaths) : Len(TestedOn(TreePaths[i])) >= 2
    /\ \E i \in 1..Len(calls) : Len(calls[i].path) >= 1 /\ calls[i].received # <<>>

\* C5: every recursive _id3 call receives strictly fewer attributes than its
\* caller received, and no root-to-leaf path tests more attributes than
\* build_tree was given.
C5_AttrsShrinkDepthBounded ==
    /\ \A i \in 1..Len(calls) :
          calls[i].path # <<>> => Len(calls[i].received) < Len(calls[i].caller)
    /\ \A i \in 1..Len(TreePaths) :
          Len(TestedOn(TreePaths[i])) <= Len(calls[1].received)

C5_Witness ==
    /\ Returned("build_tree")
    /\ \E i \in 1..Len(TreePaths) :
          Len(TestedOn(TreePaths[i])) = Len(Predictors) /\ Len(calls[1].received) = Len(Predictors)

\* C6: on a table of zero records, building the tree and scoring it fail
\* with EmptyDatasetError.
C6_EmptyDatasetError ==
    (Len(data) = 0 /\ outcome.op \in {"build_tree", "accuracy"}) =>
        outcome.exc = "EmptyDatasetError"

\* C7: a recursive _id3 call receives exactly the attributes its caller
\* received minus the attribute the caller split on, and build_tree leaves the
\* predictor list of the Dataset as it was.
C7_IndependentAttrs ==
    [][/\ \A i \in 1..Len(calls') :
            calls'[i].path # <<>> =>
                calls'[i].received =
                    Remove(calls'[i].caller, calls'[i].path[Len(calls'[i].path)])
       /\ headers' = headers]_vars

\* C8: the attribute a non-terminal _id3 call tests is the first, in the order
\* of the attributes it received, of largest information gain over the tuples
\* that reached the call.
C8_GainOverSubset ==
    \A i \in 1..Len(calls) :
        calls[i].kind = "split" =>
            calls[i].attr =
                MaxGain(calls[i].received,
                        [a \in Range(calls[i].received) |-> SubsetGain(a, calls[i].dataset)])

C10_RulesetOfCurrentTree ==
    ruleset # None => (tree # None /\ ruleset[1] = RulesOfTree)

====
